---------------------------- MODULE Spec2Model ----------------------------
(***************************************************************************)
(* A model of the pull-request triaging agent of                           *)
(* src/agents/pr_triage_agent/agent.py.                                    *)
(*                                                                         *)
(* The agent is three things:                                              *)
(*   - module-level configuration code (get_repo_config, the reading of    *)
(*     CONTRIBUTING.md and of the pull request template);                  *)
(*   - two tools, add_label_to_pr and add_comment_to_pr, each one HTTP     *)
(*     POST, and the read-only get_pull_request_details;                   *)
(*   - the triage policy, which the code states as the numbered steps of   *)
(*     BASE_PROMPT_TEMPLATE (section "4. Steps" and the comment rules of   *)
(*     section "3. Guidelines & Rules").  Decide below is those steps.     *)
(*                                                                         *)
(* Three specifications:                                                   *)
(*   SpecModule  the import of the module, then the tools called with      *)
(*               arbitrary arguments (the tools' own contract);            *)
(*   Spec        one triage invocation after the other on one pull         *)
(*               request, the author, the reviewers and the maintainers    *)
(*               acting in between;                                        *)
(*   SpecRace    NumRace invocations on the same pull request, their       *)
(*               snapshots and tool calls interleaved.                     *)
(***************************************************************************)
EXTENDS Naturals, Sequences, FiniteSets

VARIABLES
    fs,                       \* files on disk: prompts, configs, guideline docs
    REPO,                     \* settings.REPO, the target repository
    agent,                    \* the imported module: status and config source
    ALLOWED_LABELS,           \* agent.py:164
    CONTRIBUTING_MD,          \* agent.py:168-175
    PULL_REQUEST_TEMPLATE_MD, \* agent.py:177-184
    prState,                  \* pullRequest.state
    labels,                   \* pullRequest.labels
    comments,                 \* pullRequest.comments, oldest first
    missing,                  \* guideline sections the PR does not follow now
    match,                    \* the single most appropriate label, or None
    unresolved,               \* issues the bot commented on, not resolved since
    edits,                    \* number of edits the author has made
    inv,                      \* the triage invocations
    applied,                  \* labels the tools applied, in order
    labelPosts,               \* label payloads POSTed
    dupComments,              \* bot comments that repeated a raised issue
    lastResult                \* what the last tool call returned

vars == <<fs, REPO, agent, ALLOWED_LABELS, CONTRIBUTING_MD,
          PULL_REQUEST_TEMPLATE_MD, prState, labels, comments, missing,
          match, unresolved, edits, inv, applied, labelPosts, dupComments,
          lastResult>>

configVars == <<fs, REPO, agent, ALLOWED_LABELS, CONTRIBUTING_MD,
                PULL_REQUEST_TEMPLATE_MD>>

-----------------------------------------------------------------------------
(* Bounds of the model.                                                    *)

MaxEdits == 2          \* edits of the PR by its author
MaxRaceEdits == 1      \* the same under SpecRace
MaxHumanComments == 1  \* comments by the author or a reviewer
MaxToolLabels == 2     \* labels applied by tool calls under SpecModule
MaxToolComments == 1   \* comments posted by tool calls under SpecModule
NumRace == 3           \* interleaved invocations under SpecRace

-----------------------------------------------------------------------------
(* Names.                                                                  *)

None == "None"

\* Repositories with a prompt and a config shipped beside agent.py.  "ucp"
\* is the fallback of get_repo_config.
Repos == {"ucp", "adk"}

Docs == {"CONTRIBUTING_MD_PATH", "PULL_REQUEST_TEMPLATE_MD_PATH"}

\* The sections the prompt asks the PR body to complete.
Sections == {"Description", "Category"}

\* Label names a caller may pass to add_label_to_pr.
LabelNames == {"infrastructure", "documentation", "tools", "bug"}

Author == "alice"
Reviewer == "bob"
Bot == "bot"

-----------------------------------------------------------------------------
(* Module-level configuration.                                             *)

\* json.load(f).get("allowed_labels", []) of configs/<repo>.json.
ConfigLabels(repo) ==
    CASE repo = "ucp" -> {"infrastructure", "documentation"}
      [] repo = "adk" -> {"tools", "documentation"}
      [] OTHER -> {}

\* read_file(prompt_path) and open(config_path) both succeed.
RepoFilesFound(repo) == repo \in fs.prompts /\ repo \in fs.configs

Loaded(repo) == [raised |-> FALSE, source |-> repo, labels |-> ConfigLabels(repo)]

Raised == [raised |-> TRUE, source |-> None, labels |-> {}]

\* A loader without the except branch: FileNotFoundError propagates.
get_repo_config_nofallback(repo_name) ==
    IF RepoFilesFound(repo_name) THEN Loaded(repo_name) ELSE Raised

\* get_repo_config: the try branch loads the repo's own files; on
\* FileNotFoundError the except branch loads ucp's, and a second
\* FileNotFoundError there leaves the function.
get_repo_config(repo_name) ==
    IF RepoFilesFound(repo_name) THEN Loaded(repo_name)
    ELSE IF RepoFilesFound("ucp") THEN Loaded("ucp")
    ELSE Raised

\* read_file(os.environ[...]) with the (FileNotFoundError, KeyError) handler.
ReadGuideline(doc, placeholder) ==
    IF doc \in fs.docs THEN "text" ELSE placeholder

\* The import of agent.py: lines 164-191 and the construction of root_agent.
ImportModule ==
    /\ agent.status = "unloaded"
    /\ LET cfg == get_repo_config(REPO) IN
         IF cfg.raised
         THEN /\ agent' = [status |-> "failed", source |-> None]
              /\ UNCHANGED <<ALLOWED_LABELS, CONTRIBUTING_MD,
                             PULL_REQUEST_TEMPLATE_MD>>
         ELSE /\ agent' = [status |-> "loaded", source |-> cfg.source]
              /\ ALLOWED_LABELS' = cfg.labels
              /\ CONTRIBUTING_MD' =
                     ReadGuideline("CONTRIBUTING_MD_PATH",
                                   "CONTRIBUTING.md not found.")
              /\ PULL_REQUEST_TEMPLATE_MD' =
                     ReadGuideline("PULL_REQUEST_TEMPLATE_MD_PATH",
                                   "pull_request_template.md not found.")
    /\ UNCHANGED <<fs, REPO, prState, labels, comments, missing, match,
                   unresolved, edits, inv, applied, labelPosts, dupComments,
                   lastResult>>

-----------------------------------------------------------------------------
(* The tools.                                                              *)

NoResult == [tool |-> None, status |-> None, label |-> None, posted |-> FALSE]

\* The membership test left out.
NotAllowed_never(label) == FALSE

\* The membership test of add_label_to_pr.
NotAllowed(label) == label \notin ALLOWED_LABELS

\* add_label_to_pr(pr_number, label); ok says whether post_request returns
\* or raises RequestException.  The labels endpoint adds to the label set.
add_label_to_pr(label, ok) ==
    IF NotAllowed(label)
    THEN /\ lastResult' = [tool |-> "add_label_to_pr", status |-> "error",
                           label |-> label, posted |-> FALSE]
         /\ UNCHANGED <<labels, applied, labelPosts>>
    ELSE /\ labelPosts' = labelPosts \cup {label}
         /\ IF ok
            THEN /\ labels' = labels \cup {label}
                 /\ applied' = Append(applied, label)
                 /\ lastResult' = [tool |-> "add_label_to_pr",
                                   status |-> "success", label |-> label,
                                   posted |-> TRUE]
            ELSE /\ lastResult' = [tool |-> "add_label_to_pr",
                                   status |-> "error", label |-> label,
                                   posted |-> TRUE]
                 /\ UNCHANGED <<labels, applied>>

\* A bot comment: the identifying note is in its body (marker), and it
\* names the sections it asks for (none for the thank-you message).
BotComment(cites) == [login |-> Bot, marker |-> TRUE, cites |-> cites]

\* The comment says again what an earlier bot comment already says: the
\* same unresolved sections, or a second thank-you.
Repeats(cites) ==
    IF cites = {}
    THEN \E k \in DOMAIN comments : comments[k].marker
    ELSE cites \subseteq unresolved

\* A caller that sends the request again after it went through.
add_comment_to_pr_twice(cites, ok) ==
    IF ok
    THEN /\ comments' = Append(Append(comments, BotComment(cites)),
                               BotComment(cites))
         /\ unresolved' = unresolved \cup (cites \cap missing)
         /\ dupComments' = dupComments + 1 + (IF Repeats(cites) THEN 1 ELSE 0)
         /\ lastResult' = [tool |-> "add_comment_to_pr", status |-> "success",
                           label |-> None, posted |-> TRUE]
    ELSE /\ lastResult' = [tool |-> "add_comment_to_pr", status |-> "error",
                           label |-> None, posted |-> TRUE]
         /\ UNCHANGED <<comments, unresolved, dupComments>>

\* add_comment_to_pr(pr_number, comment); ok as above.
add_comment_to_pr(cites, ok) ==
    IF ok
    THEN /\ comments' = Append(comments, BotComment(cites))
         /\ unresolved' = unresolved \cup (cites \cap missing)
         /\ dupComments' = dupComments + (IF Repeats(cites) THEN 1 ELSE 0)
         /\ lastResult' = [tool |-> "add_comment_to_pr", status |-> "success",
                           label |-> None, posted |-> TRUE]
    ELSE /\ lastResult' = [tool |-> "add_comment_to_pr", status |-> "error",
                           label |-> None, posted |-> TRUE]
         /\ UNCHANGED <<comments, unresolved, dupComments>>

\* The agent calls add_label_to_pr with a label of its choosing.
ToolAddLabel ==
    /\ agent.status = "loaded"
    /\ Len(applied) < MaxToolLabels
    /\ \E label \in LabelNames, ok \in BOOLEAN : add_label_to_pr(label, ok)
    /\ UNCHANGED <<configVars, prState, comments, missing, match, unresolved,
                   edits, inv, dupComments>>

\* The agent calls add_comment_to_pr with a comment of its choosing.
ToolAddComment ==
    /\ agent.status = "loaded"
    /\ Len(comments) < MaxToolComments
    /\ \E cites \in SUBSET Sections, ok \in BOOLEAN :
           add_comment_to_pr(cites, ok)
    /\ UNCHANGED <<configVars, prState, labels, missing, match, edits, inv,
                   applied, labelPosts>>

-----------------------------------------------------------------------------
(* SpecModule: import, then the tools under any caller.                    *)

NoInvocations == [i \in {} |-> 0]

InitPR ==
    /\ prState = "OPEN"
    /\ labels = {}
    /\ comments = <<>>
    /\ unresolved = {}
    /\ edits = 0
    /\ applied = <<>>
    /\ labelPosts = {}
    /\ dupComments = 0
    /\ lastResult = NoResult

InitModule ==
    /\ fs \in [prompts : SUBSET Repos, configs : SUBSET Repos,
               docs : SUBSET Docs]
    /\ REPO \in Repos
    /\ agent = [status |-> "unloaded", source |-> None]
    /\ ALLOWED_LABELS = {}
    /\ CONTRIBUTING_MD = None
    /\ PULL_REQUEST_TEMPLATE_MD = None
    /\ InitPR
    /\ missing = {}
    /\ match = None
    /\ inv = NoInvocations

NextModule == ImportModule \/ ToolAddLabel \/ ToolAddComment

SpecModule == InitModule /\ [][NextModule]_vars

-----------------------------------------------------------------------------
(* The pull request and the people around it.                              *)

\* Labels a maintainer puts on by hand: one of the taxonomy, one outside it.
ManualLabels == {"documentation", "bug"}

HumanComments ==
    Cardinality({k \in DOMAIN comments : ~comments[k].marker})

\* The author edits the body or pushes a commit: other sections are missing
\* afterwards, or another label fits.  A section the edit completes is
\* resolved.
Edit(max) ==
    /\ agent.status = "loaded"
    /\ prState = "OPEN"
    /\ edits < max
    /\ \E m \in SUBSET Sections, l \in ALLOWED_LABELS \cup {None} :
         /\ <<m, l>> # <<missing, match>>
         /\ missing' = m
         /\ match' = l
         /\ unresolved' = unresolved \cap m
    /\ edits' = edits + 1
    /\ UNCHANGED <<configVars, prState, labels, comments, inv, applied,
                   labelPosts, dupComments, lastResult>>

AuthorEdit == Edit(MaxEdits)

RaceEdit == Edit(MaxRaceEdits)

\* The author or a reviewer writes a comment.
HumanComment ==
    /\ agent.status = "loaded"
    /\ HumanComments < MaxHumanComments
    /\ \E login \in {Author, Reviewer} :
           comments' = Append(comments,
                              [login |-> login, marker |-> FALSE, cites |-> {}])
    /\ UNCHANGED <<configVars, prState, labels, missing, match, unresolved,
                   edits, inv, applied, labelPosts, dupComments, lastResult>>

\* A maintainer labels the PR by hand.
MaintainerLabel ==
    /\ agent.status = "loaded"
    /\ \E l \in ManualLabels :
         /\ l \notin labels
         /\ labels' = labels \cup {l}
    /\ UNCHANGED <<configVars, prState, comments, missing, match, unresolved,
                   edits, inv, applied, labelPosts, dupComments, lastResult>>

\* The PR is closed or merged.
ClosePR ==
    /\ agent.status = "loaded"
    /\ prState = "OPEN"
    /\ prState' = "CLOSED"
    /\ UNCHANGED <<configVars, labels, comments, missing, match, unresolved,
                   edits, inv, applied, labelPosts, dupComments, lastResult>>

-----------------------------------------------------------------------------
(* The snapshot.                                                           *)

CommentsWindow == 50

\* comments(last: n)
LastN(seq, n) ==
    IF Len(seq) <= n THEN seq ELSE SubSeq(seq, Len(seq) - n + 1, Len(seq))

\* What get_pull_request_details returns, with what the agent reads off it:
\* the sections missing from the body and the label that fits.  The query
\* also cuts the labels to the last 10; the PRs of the model carry fewer.
Snapshot ==
    [state |-> prState, labels |-> labels,
     comments |-> LastN(comments, CommentsWindow),
     missing |-> missing, match |-> match, unresolved |-> unresolved]

-----------------------------------------------------------------------------
(* The triage policy: BASE_PROMPT_TEMPLATE, "4. Steps".                    *)

Skip == [label |-> None, comment |-> "none", cites |-> {}]

\* A filter that looks at the state alone.
Filtered_closedOnly(s) == s.state = "CLOSED"

\* A filter that compares the label set with the whole taxonomy.
Filtered_wholeTaxonomy(s) == s.state = "CLOSED" \/ s.labels = ALLOWED_LABELS

\* "Skip the PR (i.e. do not label or comment) if ... its state is 'CLOSED'
\* [or] it is already labelled with one of the ALLOWED_LABELS".
Filtered(s) == s.state = "CLOSED" \/ s.labels \cap ALLOWED_LABELS # {}

\* The marker test the wrong way round.
IsHumanReview_markerInverted(c) == c.login # Author /\ c.marker

\* A comment whose author is not the PR's author and whose body does not
\* contain "**Response from ADK Triaging Agent**".
IsHumanReview(c) == c.login # Author /\ ~c.marker

HumanInvolved(s) ==
    \E k \in DOMAIN s.comments : IsHumanReview(s.comments[k])

\* The bot's own comments: those with the identifying note.
BotComments(s) == SelectSeq(s.comments, LAMBDA c : c.marker)

\* The sections the most recent bot comment names.
LastBotCites(s) ==
    IF BotComments(s) = <<>> THEN {}
    ELSE BotComments(s)[Len(BotComments(s))].cites

\* No memory of earlier comments.
should_comment_always(s) == TRUE

\* An issue counts as raised once any earlier bot comment names it, resolved
\* in between or not.
should_comment_anyPrior(s) ==
    \E sec \in s.missing :
        \A k \in DOMAIN s.comments :
            s.comments[k].marker => sec \notin s.comments[k].cites

\* "Do not be repetitive": a comment is due unless every missing section is
\* one the bot already commented on and that has not been resolved.  Whether
\* a raised issue "has been resolved" is a fact of the PR's history: the
\* variable unresolved holds the sections a bot comment named that have been
\* missing ever since (Edit takes a completed section out of it).
should_comment(s) == ~(s.missing \subseteq s.unresolved)

\* The sections of the previous comment carried over.
CommentCites_carriedOver(s) == s.missing \cup LastBotCites(s)

\* The comment "specifies what is missing": "only the sections ... that are
\* still missing".
CommentCites(s) == s.missing

\* One or more guidelines are not followed.
SomeMissing(s) ==
    IF HumanInvolved(s) \/ ~should_comment(s) THEN Skip
    ELSE [label |-> None, comment |-> "missing", cites |-> CommentCites(s)]

\* A label is picked even when none fits.
SelectLabel_guess(s) ==
    IF s.match = None THEN CHOOSE l \in ALLOWED_LABELS : TRUE ELSE s.match

\* The label handed to add_label_to_pr: the single most appropriate one of
\* ALLOWED_LABELS; none when no category can be assigned confidently.
SelectLabel(s) == s.match

\* The thank-you comment: "If no human reviewer is involved and you have NOT
\* commented on this PR before".
Acknowledge(s) == ~HumanInvolved(s) /\ BotComments(s) = <<>>

\* All guidelines are followed.
AllSatisfied(s) ==
    [label |-> SelectLabel(s),
     comment |-> IF Acknowledge(s) THEN "ack" ELSE "none",
     cites |-> {}]

Decide(s) ==
    IF Filtered(s) THEN Skip
    ELSE IF s.missing # {} THEN SomeMissing(s)
    ELSE AllSatisfied(s)

-----------------------------------------------------------------------------
(* One invocation: the PR details are fetched, the agent decides, and then *)
(* calls add_label_to_pr and add_comment_to_pr as decided.                 *)

Idle == [pc |-> "idle", decision |-> Skip]
Done == [pc |-> "done", decision |-> Skip]

\* The invocations are numbered in the order in which they start.
MayStart(i) ==
    /\ inv[i].pc = "idle"
    /\ \A j \in DOMAIN inv : j < i => inv[j].pc # "idle"

\* get_pull_request_details succeeds and the agent works through the steps.
Fetch(i) ==
    /\ agent.status = "loaded"
    /\ MayStart(i)
    /\ inv' = [inv EXCEPT ![i] = [pc |-> "decided",
                                  decision |-> Decide(Snapshot)]]
    /\ UNCHANGED <<configVars, prState, labels, comments, missing, match,
                   unresolved, edits, applied, labelPosts, dupComments,
                   lastResult>>

\* get_pull_request_details returns an error: there is nothing to triage.
FetchError(i) ==
    /\ agent.status = "loaded"
    /\ MayStart(i)
    /\ inv' = [inv EXCEPT ![i] = Done]
    /\ UNCHANGED <<configVars, prState, labels, comments, missing, match,
                   unresolved, edits, applied, labelPosts, dupComments,
                   lastResult>>

\* The label call, first of the two.
CallAddLabel(i) ==
    /\ inv[i].pc = "decided"
    /\ inv[i].decision.label # None
    /\ \E ok \in BOOLEAN : add_label_to_pr(inv[i].decision.label, ok)
    /\ inv' = [inv EXCEPT ![i].pc = "labelled"]
    /\ UNCHANGED <<configVars, prState, comments, missing, match, unresolved,
                   edits, dupComments>>

CommentDue(i) ==
    \/ inv[i].pc = "labelled"
    \/ inv[i].pc = "decided" /\ inv[i].decision.label = None

\* The comment call.
CallAddComment(i) ==
    /\ CommentDue(i)
    /\ inv[i].decision.comment # "none"
    /\ \E ok \in BOOLEAN : add_comment_to_pr(inv[i].decision.cites, ok)
    /\ inv' = [inv EXCEPT ![i] = Done]
    /\ UNCHANGED <<configVars, prState, labels, missing, match, edits,
                   applied, labelPosts>>

\* Nothing (more) to call: the invocation ends.
Finish(i) ==
    /\ CommentDue(i)
    /\ inv[i].decision.comment = "none"
    /\ inv' = [inv EXCEPT ![i] = Done]
    /\ UNCHANGED <<configVars, prState, labels, comments, missing, match,
                   unresolved, edits, applied, labelPosts, dupComments,
                   lastResult>>

\* The next scheduled run on the same PR.
Rerun(i) ==
    /\ inv[i].pc = "done"
    /\ inv' = [inv EXCEPT ![i] = Idle]
    /\ lastResult' = NoResult
    /\ UNCHANGED <<configVars, prState, labels, comments, missing, match,
                   unresolved, edits, applied, labelPosts, dupComments>>

-----------------------------------------------------------------------------
(* Spec: runs one after the other.  SpecRace: NumRace runs interleaved,     *)
(* with the author's edits as the only other activity.  Labels are never   *)
(* taken off the PR in either.                                             *)

InitTriage(slots) ==
    /\ fs = [prompts |-> Repos, configs |-> Repos, docs |-> Docs]
    /\ REPO = "ucp"
    /\ agent = [status |-> "loaded", source |-> get_repo_config("ucp").source]
    /\ ALLOWED_LABELS = get_repo_config("ucp").labels
    /\ CONTRIBUTING_MD = "text"
    /\ PULL_REQUEST_TEMPLATE_MD = "text"
    /\ InitPR
    /\ missing \in SUBSET Sections
    /\ match \in ALLOWED_LABELS \cup {None}
    /\ inv = [i \in slots |-> Idle]

Environment == AuthorEdit \/ HumanComment \/ MaintainerLabel \/ ClosePR

Init == InitTriage({1})

Next ==
    \/ Environment
    \/ Fetch(1) \/ FetchError(1) \/ CallAddLabel(1) \/ CallAddComment(1)
    \/ Finish(1) \/ Rerun(1)

Spec == Init /\ [][Next]_vars

InitRace == InitTriage(1 .. NumRace)

NextRace ==
    \/ RaceEdit
    \/ \E i \in 1 .. NumRace :
           \/ Fetch(i) \/ FetchError(i) \/ CallAddLabel(i)
           \/ CallAddComment(i) \/ Finish(i)

SpecRace == InitRace /\ [][NextRace]_vars

-----------------------------------------------------------------------------
(* What the properties below speak of.                                     *)

\* Invocation i takes its snapshot and decides in this step: the unprimed
\* variables are the snapshot, inv'[i].decision is the decision.
Decides(i) == i \in DOMAIN inv /\ inv[i].pc = "idle" /\ inv'[i].pc = "decided"

NoLabelAction(d) == d.label = None
NoCommentAction(d) == d.comment = "none"
IsSkip(d) == NoLabelAction(d) /\ NoCommentAction(d)

OpenUnlabelled == prState = "OPEN" /\ labels \cap ALLOWED_LABELS = {}

HumanReviewPresent ==
    \E k \in DOMAIN comments :
        comments[k].login # Author /\ ~comments[k].marker

MarkerComments == {k \in DOMAIN comments : comments[k].marker}

\* The sections named by the latest comment that carries the bot marker.
LatestBotCites ==
    IF MarkerComments = {} THEN {}
    ELSE comments[CHOOSE k \in MarkerComments :
                      \A j \in MarkerComments : j <= k].cites

-----------------------------------------------------------------------------
(* C1.  Filter stage: when the item is closed or already carries a label   *)
(* of the allowed taxonomy, the invocation decides Skip: no label action   *)
(* and no comment action, whatever the comments, the missing sections and  *)
(* the label match are.                                                    *)
C1_FilterSkips ==
    [][Decides(1) /\ (prState = "CLOSED" \/ labels \cap ALLOWED_LABELS # {})
         => IsSkip(inv'[1].decision)]_vars

\* A labelled, open PR that follows every guideline, with a fitting label
\* and nobody involved, is skipped.
C1_Witness ==
    /\ inv[1].pc = "decided" /\ IsSkip(inv[1].decision)
    /\ prState = "OPEN" /\ labels \cap ALLOWED_LABELS # {}
    /\ applied = <<>> /\ missing = {} /\ match # None /\ comments = <<>>
    /\ edits = 0

(* C2, as claimed.  Human deference: an open, unlabelled item with a       *)
(* comment by someone other than its author and without the bot marker is  *)
(* skipped, no comment and no label, whatever the guideline verdict.       *)
C2_AsClaimed ==
    [][Decides(1) /\ OpenUnlabelled /\ HumanReviewPresent
         => IsSkip(inv'[1].decision)]_vars

(* C2, amended.  With a human reviewer involved the invocation never       *)
(* comments; it is skipped altogether when sections are missing, and when  *)
(* all guidelines are followed the label is still applied.                 *)
C2_HumanDeference ==
    [][Decides(1) /\ OpenUnlabelled /\ HumanReviewPresent
         => /\ NoCommentAction(inv'[1].decision)
            /\ missing # {} => IsSkip(inv'[1].decision)
            /\ missing = {} => inv'[1].decision.label = match]_vars

\* A reviewer has commented on a PR with missing sections that the bot has
\* never commented on: skipped.
C2_Witness ==
    /\ inv[1].pc = "decided" /\ IsSkip(inv[1].decision)
    /\ OpenUnlabelled /\ HumanReviewPresent
    /\ missing # {} /\ MarkerComments = {} /\ edits = 0

C4_RejectsOutsiders ==
    [][/\ (lastResult' # lastResult
           /\ lastResult'.tool = "add_label_to_pr"
           /\ lastResult'.label \notin ALLOWED_LABELS)
          => /\ lastResult'.status = "error" /\ ~lastResult'.posted
             /\ labels' = labels /\ labelPosts' = labelPosts
       /\ labels' \subseteq ALLOWED_LABELS'
       /\ labelPosts' \subseteq ALLOWED_LABELS']_vars

\* A label outside the taxonomy was refused after an allowed one was applied.
C4_Witness ==
    /\ lastResult.tool = "add_label_to_pr"
    /\ lastResult.label \notin ALLOWED_LABELS
    /\ lastResult.status = "error"
    /\ labels # {}

(* C5, as claimed.  ConfigurationMissing: when the target repository has   *)
(* no prompt, no label config or no guideline document, the error is       *)
(* propagated (the import fails); no other repository's configuration is   *)
(* used and nothing is labelled or commented.                              *)
C5_AsClaimed ==
    (agent.status # "unloaded"
       /\ (REPO \notin fs.prompts \/ REPO \notin fs.configs \/ fs.docs # Docs))
      => /\ agent.status = "failed"
         /\ labels = {} /\ comments = <<>>

(* C5, amended.  When the target repository's prompt or config is missing, *)
(* get_repo_config falls back to ucp's and the agent runs with ucp's       *)
(* allowed labels; the error is propagated, and nothing is labelled or     *)
(* commented, only when ucp's files are missing too.  A missing guideline  *)
(* document is replaced by a "not found" text.                             *)
C5_FallsBackToUcp ==
    agent.status # "unloaded" =>
      LET own == REPO \in fs.prompts /\ REPO \in fs.configs
          ucp == "ucp" \in fs.prompts /\ "ucp" \in fs.configs
      IN /\ own => agent = [status |-> "loaded", source |-> REPO]
         /\ (~own /\ ucp) => agent = [status |-> "loaded", source |-> "ucp"]
         /\ (~own /\ ~ucp) =>
              /\ agent.status = "failed"
              /\ labels = {} /\ comments = <<>> /\ lastResult = NoResult
         /\ agent.status = "loaded" =>
              /\ ALLOWED_LABELS = ConfigLabels(agent.source)
              /\ CONTRIBUTING_MD =
                   (IF "CONTRIBUTING_MD_PATH" \in fs.docs THEN "text"
                    ELSE "CONTRIBUTING.md not found.")
              /\ PULL_REQUEST_TEMPLATE_MD =
                   (IF "PULL_REQUEST_TEMPLATE_MD_PATH" \in fs.docs THEN "text"
                    ELSE "pull_request_template.md not found.")

\* adk has no config: the agent runs on ucp's and has applied a ucp label.
C5_Witness ==
    /\ REPO = "adk" /\ "adk" \notin fs.configs
    /\ agent = [status |-> "loaded", source |-> "ucp"]
    /\ "infrastructure" \in labels

(* C6.  Comment idempotence: when the latest bot comment names every       *)
(* section that is missing now and these have stayed unresolved, no        *)
(* comment is decided; run after run, no bot comment repeats an issue that *)
(* an earlier one raised and that is still unresolved.                     *)
C6_Idempotence ==
    [][/\ (Decides(1) /\ missing # {} /\ MarkerComments # {}
           /\ missing \subseteq LatestBotCites
           /\ missing \subseteq unresolved)
          => NoCommentAction(inv'[1].decision)
       /\ dupComments' = 0]_vars

\* The second run on a PR the bot has commented on, nothing else changed.
C6_Witness ==
    /\ inv[1].pc = "decided" /\ IsSkip(inv[1].decision)
    /\ OpenUnlabelled /\ ~HumanReviewPresent
    /\ missing # {} /\ Len(comments) = 1 /\ LatestBotCites = missing
    /\ edits = 0

(* C7.  New-issue detection: should_comment is true when a section is      *)
(* missing that the latest bot comment does not name (the one it named     *)
(* resolved, another missing now), and when the bot has not commented.     *)
C7_NewIssue ==
    (missing # {}
       /\ (MarkerComments = {} \/ \E sec \in missing : sec \notin LatestBotCites))
      => should_comment(Snapshot)

\* Description was raised and is resolved; Category is missing now, and the
\* invocation decides to comment on it.
C7_Witness ==
    /\ inv[1].pc = "decided"
    /\ LatestBotCites = {"Description"} /\ missing = {"Category"}
    /\ inv[1].decision.comment = "missing"
    /\ inv[1].decision.cites = {"Category"}

(* C8.  Runs one after the other apply at most one label to the PR in      *)
(* all: once a label is applied, no later invocation decides to label.     *)
C8_OneLabel ==
    [][/\ (Decides(1) /\ applied # <<>>) => NoLabelAction(inv'[1].decision)
       /\ Len(applied') <= 1]_vars

\* After its label was applied the PR was edited, follows the guidelines
\* and another label fits: the next invocation still skips.
C8_Witness ==
    /\ Len(applied) = 1 /\ prState = "OPEN"
    /\ inv[1].pc = "decided" /\ IsSkip(inv[1].decision)
    /\ missing = {} /\ match # None /\ match # applied[1]

(* C9, as claimed.  Interleaved invocations on one PR leave at most one    *)
(* redundant bot comment and no second label.                              *)
C9_AsClaimed ==
    dupComments <= 1 /\ Cardinality(labels \cap ALLOWED_LABELS) <= 1

(* C9, amended.  Each invocation sends at most one comment and at most one *)
(* label request, so N interleaved invocations leave at most N - 1         *)
(* redundant bot comments and apply at most N labels, all of them of the   *)
(* taxonomy.                                                               *)
C9_BoundedByInvocations ==
    /\ dupComments + 1 <= NumRace
    /\ Cardinality(MarkerComments) <= NumRace
    /\ Len(applied) <= NumRace
    /\ labels \subseteq ALLOWED_LABELS

\* Every invocation but the first has repeated the comment.
C9_Witness ==
    /\ dupComments = NumRace - 1
    /\ \A i \in DOMAIN inv : inv[i].pc = "done"

(* C10.  SomeMissing path: for an open, unlabelled item without human      *)
(* involvement and with a section missing, the decision is Comment or      *)
(* Skip, never a label; a comment names exactly the sections missing now.  *)
C10_SomeMissing ==
    [][Decides(1) /\ OpenUnlabelled /\ ~HumanReviewPresent /\ missing # {}
         => /\ NoLabelAction(inv'[1].decision)
            /\ inv'[1].decision.comment \in {"missing", "none"}
            /\ inv'[1].decision.comment = "missing"
                 => inv'[1].decision.cites = missing]_vars

\* Item without comments or labels whose body lacks the Category section.
C10_Witness ==
    /\ inv[1].pc = "decided"
    /\ OpenUnlabelled /\ comments = <<>> /\ missing = {"Category"}
    /\ edits = 0
    /\ inv[1].decision =
         [label |-> None, comment |-> "missing", cites |-> {"Category"}]

=============================================================================
